---- MODULE Spec2Model ----
(***************************************************************************)
(* A model of langgraph_mcp_agent: the tool-calling control loop           *)
(* (agent.py), the tool registry built from MCP clients (tools.py) and     *)
(* the MCP client manager (mcp_client.py).                                 *)
(*                                                                         *)
(* Three specifications share the module's variables:                      *)
(*   Spec          the control loop of create_tool_calling_agent           *)
(*   SpecRegistry  get_mcp_tools and the tools it returns                  *)
(*   SpecManager   MCPClientManager.get_tools / close                      *)
(* Each leaves the other components' variables at their initial values.    *)
(***************************************************************************)
EXTENDS Integers, Sequences, FiniteSets, TLC

\* ------------------------------------------------------------------ bounds

\* Responses in which a free-running model stub may request tool calls during
\* one query; after that many it answers without tool calls.
MaxToolRounds == 1
\* Tool calls one assistant message may carry.
MaxCalls == 2

\* MCP clients handed to get_mcp_tools.
MaxClients == 2
\* Invocations made of the tools get_mcp_tools returned.
MaxInvokes == 2
\* Server URLs in each of the manager's two lists.
MaxUrls == 2
\* get_tools / close calls made on one manager.
MaxOps == 3
\* run_query / run_query_stream calls made on one application.
MaxQueries == 2
\* Validators built from one tool's inputSchema.
MaxBuilds == 2
\* Characters of a workspace URL or of a server path.
MaxStrLen == 3
\* Characters of an environment variable's value.
MaxEnvLen == 5

\* The super-step budget of a compiled graph invoked without a config
\* (langgraph's default recursion_limit).
RecursionLimit == 25

\* ------------------------------------------------------ the loop's variables

VARIABLES
    messages,     \* AgentState["messages"], the history
    pc,           \* "agent" | "tools" | "end" | "tool_error" | "recursion_error"
    lastNode,     \* the node whose super-step ran last: "none" | "agent" | "tools"
    steps,        \* super-steps completed in this invocation
    modelCalls,   \* model_with_tools.invoke calls made
    responses,    \* what those calls returned, in order
    toolRuns,     \* tool coroutines entered (validation passed, tool known)
    doneOrder,    \* positions of the current tool calls, in completion order
    alwaysCalls,  \* 0: the model stub answers freely; n > 0: it requests n calls on every response
    answersAt,    \* 0: a stub with alwaysCalls > 0 never answers; r > 0: it answers at call r
    build,        \* ToolNode's default handle_tool_errors: "catch_all" | "reraise"
    failing,      \* tools whose remote call raises
    system_prompt,   \* create_tool_calling_agent's system_prompt; "" when not given
    custom_inputs,   \* AgentState["custom_inputs"]; << >> when not given
    custom_outputs,  \* AgentState["custom_outputs"]; << >> when not given
    outbound      \* the message list of the last model_with_tools.invoke

loopVars == <<messages, pc, lastNode, steps, modelCalls, responses, toolRuns, doneOrder,
              alwaysCalls, answersAt, build, failing, system_prompt, custom_inputs, custom_outputs,
              outbound>>

\* -------------------------------------------------- the registry's variables

VARIABLES
    catalog,          \* per MCP client (in the order given), the tool names its server lists
    rpc,              \* get_mcp_tools: "fetch" | "returned" | "raised"
    fetchLog,         \* the _get_tools_async calls made: [client, ok]
    tool_client_map,  \* the dict tool name -> (client, tool), in insertion order
    langchain_tools,  \* the list get_mcp_tools returned
    invLog,           \* invocations of returned tools: [tool, args]
    callLog,          \* the _call_tools_async calls made: [client, name, args]
    lookupLog         \* the get_tool_by_name calls made: [name, result]

registryVars == <<catalog, rpc, fetchLog, tool_client_map, langchain_tools, invLog,
                  callLog, lookupLog>>

\* --------------------------------------------------- the manager's variables

VARIABLES
    databricks_server_urls,  \* self.databricks_server_urls
    external_server_urls,    \* self.external_server_urls
    client,                  \* self._client: NoClient or the connections it was built with
    authProviders,           \* DatabricksOAuthClientProvider objects created
    clientsBuilt,            \* MultiServerMCPClient objects constructed
    urlReads,                \* get_all_server_urls calls
    netCalls,                \* self._client.get_tools() calls: the catalog fetches
    getToolsCalls,           \* get_tools calls made
    closeCalls,              \* close calls made
    lastResult               \* the last get_tools: "none" | "tools" | "config_error" | "fetch_error"

managerVars == <<databricks_server_urls, external_server_urls, client, authProviders,
                 clientsBuilt, urlReads, netCalls, getToolsCalls, closeCalls, lastResult>>

\* ------------------------------------------- one StructuredTool's invocations

VARIABLES
    mcp_tool,         \* one entry of tool_client_map: [name, client, tool]
    structured_tool,  \* the StructuredTool get_mcp_tools built for that entry
    inflight,         \* invocations awaiting client._call_tools_async: [kwargs, call]
    runs,             \* the invocations that ended: [kwargs, outcome, call, result, output]
    validators        \* the args_schema models built from the entry's inputSchema

invokeVars == <<mcp_tool, structured_tool, inflight, runs, validators>>

\* ----------------------------------------------- the application's variables

VARIABLES
    agent,        \* self.agent: "None" | "compiled"
    mcp_manager,  \* self.mcp_manager: "None" | "manager"
    queryCalls,   \* run_query and run_query_stream calls made
    lastQuery     \* the last of them: [kind, outcome]

appVars == <<agent, mcp_manager, queryCalls, lastQuery>>

\* ------------------------------------- the configuration functions' variables

VARIABLES
    config_call,  \* the call made: [fn, workspace_url, server_paths, env]
    config_pc,    \* "idle" | "called" | "returned"
    config_ret    \* the list the call returned

configVars == <<config_call, config_pc, config_ret>>

\* Tool invocations running as concurrent tasks of one event loop.
VARIABLES
    task_map,         \* tool_client_map the tools were built from
    task_tools,       \* the StructuredTools built from task_map
    tasks,            \* one frame per invocation: [tool, kwargs, pc, call, result, output]
    sessions          \* per client, the calls its connection received, in order

taskVars == <<task_map, task_tools, tasks, sessions>>

vars == <<loopVars, registryVars, managerVars, invokeVars, appVars, configVars, taskVars>>

\* ------------------------------------------------------------- messages

NoCalls == << >>

HumanMessage(c) ==
    [type |-> "human", content |-> c, tool_calls |-> NoCalls,
     tool_call_id |-> << >>, status |-> "", id |-> 0]

AIMessage(c, calls) ==
    [type |-> "ai", content |-> c, tool_calls |-> calls,
     tool_call_id |-> << >>, status |-> "", id |-> 0]

ToolMessage(c, callId, st) ==
    [type |-> "tool", content |-> c, tool_calls |-> NoCalls,
     tool_call_id |-> callId, status |-> st, id |-> 0]

SystemMessage(c) ==
    [type |-> "system", content |-> c, tool_calls |-> NoCalls,
     tool_call_id |-> << >>, status |-> "", id |-> 0]

\* A response that is not an AIMessage (a stub may return any message).
ChatMessage(c) ==
    [type |-> "chat", content |-> c, tool_calls |-> NoCalls,
     tool_call_id |-> << >>, status |-> "", id |-> 0]

\* The tools bound to the model and held by the ToolNode, with the parameters
\* each one's args_schema requires.
LoopTools == {"toolA", "toolB"}

RequiredArgs(name) == IF name = "toolA" THEN {"query"} ELSE {}

\* What the stub may put in one tool call: a well-formed call of each tool, a
\* call that omits a required argument, and a call of a tool that is not bound.
CallMenu ==
    { [name |-> "toolA", args |-> {"query"}],
      [name |-> "toolA", args |-> {}],
      [name |-> "toolB", args |-> {}],
      [name |-> "nope",  args |-> {}] }

\* Tool calls of the response to model call number `round`: ids are unique
\* across the run.
MakeCalls(round, shape) ==
    [k \in 1..Len(shape) |->
        [id |-> <<round, k>>, name |-> shape[k].name, args |-> shape[k].args]]

CallShapes == UNION { [1..n -> CallMenu] : n \in 1..MaxCalls }

\* ------------------------------------------------------------- add_messages

\* The position of the message of `left` with id `i`, or 0.
IndexOfId(left, i) ==
    IF \E k \in 1..Len(left) : left[k].id = i
    THEN CHOOSE k \in 1..Len(left) : left[k].id = i
    ELSE 0

add_messages_last_value(left, right) == right

\* The reducer of AgentState.messages: a message without an id gets a fresh
\* one and is appended; a message whose id is already in the history replaces
\* that entry in place.
RECURSIVE add_messages(_, _)
add_messages(left, right) ==
    IF right = << >> THEN left
    ELSE LET m == Head(right)
             at == IF m.id = 0 THEN 0 ELSE IndexOfId(left, m.id)
             merged == IF at = 0
                       THEN Append(left,
                                   IF m.id = 0
                                   THEN [m EXCEPT !.id = Len(left) + 1]
                                   ELSE m)
                       ELSE [left EXCEPT ![at] = m]
         IN add_messages(merged, Tail(right))

\* ---------------------------------------------------------- should_continue

should_continue_always(msgs) == "continue"

should_continue_any_ai(msgs) ==
    IF msgs[Len(msgs)].type = "ai" THEN "continue" ELSE "end"

should_continue(msgs) ==
    LET last_message == msgs[Len(msgs)]
    IN IF last_message.type = "ai" /\ last_message.tool_calls # NoCalls
       THEN "continue"
       ELSE "end"

EdgeTargetBackToAgent(label) == IF label = "continue" THEN "tools" ELSE "agent"

\* The conditional edge's mapping {"continue": "tools", "end": END}.
EdgeTarget(label) == IF label = "continue" THEN "tools" ELSE "end"

\* ------------------------------------------------------------ the step budget

OutOfStepsNever(s) == FALSE

\* The graph runs under the default recursion limit: the invocation fails once
\* more super-steps than the limit have run.
OutOfSteps(s) == s > RecursionLimit

\* --------------------------------------------------------------- call_model

\* What the model stub may answer to model call number `round`.
Responses(round) ==
    IF alwaysCalls > 0
    THEN IF answersAt = 0 \/ round < answersAt
         THEN { AIMessage("", MakeCalls(round,
                   [k \in 1..alwaysCalls |-> [name |-> "toolA", args |-> {"query"}]])) }
         ELSE { AIMessage("answer", NoCalls) }
    ELSE { AIMessage("answer", NoCalls), ChatMessage("answer") }
         \cup IF round <= MaxToolRounds
              THEN { AIMessage("", MakeCalls(round, s)) : s \in CallShapes }
              ELSE {}

ModelInputNoPrompt(prompt, history) == history

\* The list call_model sends to the model: the history, behind a
\* SystemMessage when a system prompt was given.
ModelInput(prompt, history) ==
    IF prompt # "" THEN <<SystemMessage(prompt)>> \o history ELSE history

call_model_sets_outputs(response) ==
    [messages |-> <<response>>, custom_outputs |-> <<"answer", response.content>>]

\* What call_model returns: an update of the "messages" key only.
call_model(response) == [messages |-> <<response>>]

\* The value of a state key after a node's update: keys the update does not
\* name keep their value.
Channel(update, key, old) == IF key \in DOMAIN update THEN update[key] ELSE old

\* The "agent" super-step: call_model, the reducer, then the conditional edge.
AgentStep ==
    /\ pc = "agent"
    /\ \E response \in Responses(modelCalls + 1) :
         /\ outbound' = ModelInput(system_prompt, messages)
         /\ LET update == call_model(response)
            IN /\ messages' = add_messages(messages, update.messages)
               /\ custom_inputs' = Channel(update, "custom_inputs", custom_inputs)
               /\ custom_outputs' = Channel(update, "custom_outputs", custom_outputs)
         /\ modelCalls' = modelCalls + 1
         /\ responses' = Append(responses, response)
         /\ steps' = steps + 1
         /\ lastNode' = "agent"
         /\ doneOrder' = << >>
         /\ pc' = IF OutOfSteps(steps')
                  THEN "recursion_error"
                  ELSE EdgeTarget(should_continue(messages'))
    /\ UNCHANGED <<toolRuns, alwaysCalls, answersAt, build, failing, system_prompt>>
    /\ UNCHANGED <<registryVars, managerVars, invokeVars, appVars, configVars, taskVars>>

\* ----------------------------------------------------------------- ToolNode

\* The tool calls the ToolNode works on: those of the last message.
PendingCalls ==
    LET last == messages[Len(messages)]
    IN IF last.type = "ai" THEN last.tool_calls ELSE NoCalls

Range(s) == { s[k] : k \in 1..Len(s) }

\* What one tool call comes to: "invalid_tool" (no tool of that name),
\* "invalid_args" (the args_schema rejects the arguments), "raised" (the
\* remote call raised) or "ok".
CallOutcome(call) ==
    IF call.name \notin LoopTools THEN "invalid_tool"
    ELSE IF ~ (RequiredArgs(call.name) \subseteq call.args) THEN "invalid_args"
    ELSE IF call.name \in failing THEN "raised"
    ELSE "ok"

\* Whether the tool's coroutine is entered for the call.
RunsTool(call) == CallOutcome(call) \in {"ok", "raised"}

\* Whether the error of the call leaves the ToolNode (and so ainvoke).
Propagates(call) == CallOutcome(call) = "raised" /\ build = "reraise"

ResultMessageWrongId(call) ==
    ToolMessage(CallOutcome(call), << >>,
                IF CallOutcome(call) = "ok" THEN "success" ELSE "error")

\* The tool-result message of a call that did not propagate an error.
ResultMessage(call) ==
    IF CallOutcome(call) = "ok"
    THEN ToolMessage("ok", call.id, "success")
    ELSE ToolMessage(CallOutcome(call), call.id, "error")

JoinOrderByCompletion(calls, order) == [k \in 1..Len(order) |-> order[k]]

\* The order in which the results are written: that of the requests.
JoinOrder(calls, order) == [k \in 1..Len(calls) |-> k]

\* One of the concurrently running tool calls finishes.
ToolComplete ==
    /\ pc = "tools"
    /\ \E k \in (1..Len(PendingCalls)) \ Range(doneOrder) :
         LET call == PendingCalls[k]
         IN /\ toolRuns' = IF RunsTool(call) THEN toolRuns + 1 ELSE toolRuns
            /\ IF Propagates(call)
               THEN /\ pc' = "tool_error"
                    /\ doneOrder' = doneOrder
               ELSE /\ pc' = pc
                    /\ doneOrder' = Append(doneOrder, k)
    /\ UNCHANGED <<messages, lastNode, steps, modelCalls, responses, alwaysCalls, answersAt,
                   build, failing, system_prompt, custom_inputs, custom_outputs,
                   outbound>>
    /\ UNCHANGED <<registryVars, managerVars, invokeVars, appVars, configVars, taskVars>>

\* All calls have finished: the ToolNode returns their messages, the reducer
\* appends them, and the edge tools -> agent is taken.
ToolsJoin ==
    /\ pc = "tools"
    /\ Range(doneOrder) = 1..Len(PendingCalls)
    /\ LET calls == PendingCalls
           order == JoinOrder(calls, doneOrder)
           update == [messages |-> [k \in 1..Len(order) |->
                                      ResultMessage(calls[order[k]])]]
       IN /\ messages' = add_messages(messages, update.messages)
          /\ custom_inputs' = Channel(update, "custom_inputs", custom_inputs)
          /\ custom_outputs' = Channel(update, "custom_outputs", custom_outputs)
    /\ steps' = steps + 1
    /\ lastNode' = "tools"
    /\ pc' = IF OutOfSteps(steps') THEN "recursion_error" ELSE "agent"
    /\ UNCHANGED <<modelCalls, responses, toolRuns, doneOrder, alwaysCalls, answersAt, build,
                   failing, system_prompt, outbound>>
    /\ UNCHANGED <<registryVars, managerVars, invokeVars, appVars, configVars, taskVars>>

\* ------------------------------------------------------- the loop's properties

LastMessage == messages[Len(messages)]

WantsTools(m) == m.type = "ai" /\ m.tool_calls # NoCalls

\* Message m as the reducer stores it at position `at` of the history.
Stored(m, at) == [m EXCEPT !.id = at]

\* C1: when the model's first response is an assistant message without tool
\* calls, the run started from one user message has made exactly one model
\* call, has run no tool, holds exactly the user message and that response,
\* and is at END.
C1_NoToolCallEndsAfterOneStep ==
    (responses # << >> /\ responses[1].type = "ai" /\ responses[1].tool_calls = NoCalls)
    => /\ pc = "end"
       /\ modelCalls = 1
       /\ steps = 1
       /\ toolRuns = 0
       /\ doneOrder = << >>
       /\ messages = <<Stored(HumanMessage("query"), 1), Stored(responses[1], 2)>>

C1_Witness ==
    /\ responses # << >>
    /\ responses[1] = AIMessage("answer", NoCalls)
    /\ pc = "end"

\* C2: after the agent step the loop is in TOOLS exactly when the last message
\* is an assistant message with a non-empty tool-call list, and at END in every
\* other case (an assistant message with no tool calls, or a message that is
\* not an assistant message).
C2_RoutesOnLastMessage ==
    (lastNode = "agent" /\ pc # "recursion_error")
    => /\ WantsTools(LastMessage) => pc \in {"tools", "tool_error"}
       /\ ~ WantsTools(LastMessage) => pc = "end"

C2_Witness ==
    /\ lastNode = "agent"
    /\ modelCalls = 2
    /\ LastMessage.type = "chat"
    /\ pc = "end"

\* C3: the tool-result messages are appended in the order the calls were
\* requested whatever the order in which the invocations completed, and a run
\* with one tool round ends with the history user message, assistant message
\* with the calls, one result per call in request order, next response.
C3_ResultsInRequestOrder ==
    /\ lastNode = "tools" =>
         LET n == Len(doneOrder)
             at == Len(messages) - n
         IN /\ at >= 1
            /\ Len(messages[at].tool_calls) = n
            /\ \A k \in 1..n :
                 /\ messages[at + k].type = "tool"
                 /\ messages[at + k].tool_call_id = messages[at].tool_calls[k].id
    /\ (pc = "end" /\ modelCalls = 2) =>
         LET n == Len(responses[1].tool_calls)
         IN /\ Len(messages) = n + 3
            /\ messages[1].type = "human"
            /\ messages[2] = Stored(responses[1], 2)
            /\ \A k \in 1..n :
                 /\ messages[2 + k].type = "tool"
                 /\ messages[2 + k].tool_call_id = <<1, k>>
            /\ messages[n + 3] = Stored(responses[2], n + 3)

C3_Witness ==
    /\ lastNode = "tools"
    /\ doneOrder = <<2, 1>>
    /\ Len(messages) = 4
    /\ messages[3].tool_call_id = <<1, 1>>
    /\ messages[4].tool_call_id = <<1, 2>>

\* C4: every assistant message with tool calls that has been answered is
\* followed by exactly one tool-result message per call, carrying that call's
\* identifier, and nothing else before the next model response; every
\* tool-result message belongs to such a block; and the model is called again
\* only after the results are in the history.
C4_OneResultPerCall ==
    /\ \A i \in 1..Len(messages) :
         WantsTools(messages[i]) =>
           LET calls == messages[i].tool_calls
               n == Len(calls)
           IN \/ /\ i = Len(messages)
                 /\ pc \in {"tools", "tool_error", "recursion_error"}
              \/ /\ Len(messages) >= i + n
                 /\ \A k \in 1..n :
                      /\ messages[i + k].type = "tool"
                      /\ messages[i + k].tool_call_id = calls[k].id
                 /\ messages[i + 1].tool_call_id \in { calls[k].id : k \in 1..n }
                 /\ Len(messages) > i + n => messages[i + n + 1].type # "tool"
    /\ \A j \in 1..Len(messages) :
         messages[j].type = "tool" =>
           \E i \in 1..(j - 1) :
              /\ WantsTools(messages[i])
              /\ j - i \in 1..Len(messages[i].tool_calls)
              /\ messages[j].tool_call_id = messages[i].tool_calls[j - i].id
    /\ (pc = "agent" /\ modelCalls > 0) => LastMessage.type = "tool"

C4_Witness ==
    /\ pc = "end"
    /\ modelCalls = 2
    /\ Len(messages) = 5
    /\ messages[3].status = "error"
    /\ messages[4].status = "success"

\* C5: a tool invocation that fails (unknown tool, rejected arguments, an error
\* raised by the remote call) never aborts the query: the run never ends with
\* the tool's error leaving the loop.
C5_FailingToolDoesNotAbort == pc # "tool_error"

\* C6 (as stated): with a model that requests a tool call on every response the
\* loop never reaches END or any error state.
C6_NoStepLimit == alwaysCalls > 0 => pc \in {"agent", "tools"}

\* C6 (amended): with a model that requests a tool call on every response the
\* loop never reaches END and no tool error ends it; it alternates agent and
\* tools steps until the graph's default recursion limit is passed, and then,
\* and only then, fails with the recursion error.
C6_StopsOnlyAtRecursionLimit ==
    alwaysCalls > 0 =>
      /\ pc \in {"agent", "tools", "recursion_error"}
      /\ pc = "recursion_error" <=> steps > RecursionLimit
      /\ pc = "agent" => steps % 2 = 0
      /\ pc = "tools" => steps % 2 = 1
      /\ modelCalls = (steps + 1) \div 2

C6_Witness == alwaysCalls > 0 /\ pc = "recursion_error"

IsPrefix(a, b) == Len(a) <= Len(b) /\ \A i \in 1..Len(a) : a[i] = b[i]

\* C16: every AGENT step and every TOOLS step leaves the history it found as
\* a prefix of the history it leaves: no earlier message is removed, replaced
\* or moved.
C16_HistoryAppendOnly == [][IsPrefix(messages, messages')]_vars

C16_Witness ==
    /\ lastNode = "agent"
    /\ modelCalls = 2
    /\ toolRuns >= 1
    /\ Len(messages) >= 4

\* C17: with a system prompt given, the list sent to the model by an AGENT
\* step is the SystemMessage of that prompt followed by the history the step
\* found, and no message of the stored history is a system message.
C17_SystemPromptOutboundOnly ==
    system_prompt # "" =>
      /\ lastNode = "agent" =>
           /\ outbound # << >>
           /\ Head(outbound) = SystemMessage(system_prompt)
           /\ Tail(outbound) = SubSeq(messages, 1, Len(messages) - 1)
      /\ modelCalls > 0 => Head(outbound).type = "system"
      /\ \A i \in 1..Len(messages) : messages[i].type # "system"

C17_Witness ==
    /\ system_prompt # ""
    /\ lastNode = "agent"
    /\ modelCalls = 2
    /\ Len(outbound) >= 4
    /\ Head(outbound).type = "system"

\* C18: no AGENT step and no TOOLS step changes custom_inputs or
\* custom_outputs, so at END they have the values the run was started with.
C18_CustomKeysUntouched ==
    [][custom_inputs' = custom_inputs /\ custom_outputs' = custom_outputs]_vars

C18_Witness ==
    /\ pc = "end"
    /\ toolRuns >= 1
    /\ modelCalls = 2
    /\ custom_inputs = <<"key", "value">>
    /\ custom_outputs = <<"out", "value">>

\* ------------------------------------------------------------- termination

\* The model stub answers without tool calls after finitely many calls.
ModelAnswers == alwaysCalls = 0 \/ answersAt > 0

\* Every tool invocation returns: no remote call raises.
ToolsReturn == failing = {}

\* The most super-steps the run takes up to the model's answer: an AGENT step
\* per model call and a TOOLS step between two of them.
StepsToAnswer ==
    IF alwaysCalls > 0 THEN 2 * answersAt - 1 ELSE 2 * (MaxToolRounds + 1) - 1

\* The last message of the returned history is the model's last response.
LastIsFinalAnswer ==
    /\ responses # << >>
    /\ WantsTools(responses[Len(responses)]) = FALSE
    /\ [LastMessage EXCEPT !.id = 0] = [responses[Len(responses)] EXCEPT !.id = 0]

\* C25 (as stated): when the model answers without tool calls after finitely
\* many calls and every tool invocation returns, the loop eventually reaches
\* END with the final assistant message last.
C25_AnswerReachesEnd ==
    (ModelAnswers /\ ToolsReturn) ~> (pc = "end" /\ LastIsFinalAnswer)

\* C25 (amended): under the same conditions the run eventually stops, at END
\* or with the recursion error; it reaches END when the answer comes within
\* the default recursion limit, and fails with the recursion error only when
\* more super-steps than the limit have run; at END the last message of the
\* history is the model's final response, which requests no tool.
C25_AnswerWithinLimitReachesEnd ==
    /\ (ModelAnswers /\ ToolsReturn) ~> (pc \in {"end", "recursion_error"})
    /\ (ModelAnswers /\ ToolsReturn /\ StepsToAnswer <= RecursionLimit) ~> (pc = "end")
    /\ []((ModelAnswers /\ ToolsReturn) =>
            /\ pc = "recursion_error" => steps > RecursionLimit
            /\ pc = "end" => LastIsFinalAnswer /\ steps <= RecursionLimit)

\* A run of the longest length the limit allows has reached END.
C25_Witness ==
    /\ ModelAnswers /\ ToolsReturn
    /\ pc = "end"
    /\ LastIsFinalAnswer
    /\ steps = RecursionLimit
    /\ toolRuns >= 1

\* ------------------------------------------------------------- cancellation

WritesOnCancelCompleted(calls, order) ==
    [k \in 1..Len(order) |-> ResultMessage(calls[order[k]])]

\* What a cancelled super-step writes to "messages": a node's update is what
\* the node returns, call_model returns after the model's answer and the
\* ToolNode after all its calls, and a node that is cancelled returns nothing.
WritesOnCancel(calls, order) == << >>

\* The caller cancels ainvoke while the graph waits for the model (pc =
\* "agent") or for the tool calls (pc = "tools").
Cancel ==
    /\ pc \in {"agent", "tools"}
    /\ messages' = add_messages(messages, WritesOnCancel(PendingCalls, doneOrder))
    /\ pc' = "cancelled"
    /\ UNCHANGED <<lastNode, steps, modelCalls, responses, toolRuns, doneOrder,
                   alwaysCalls, answersAt, build, failing, system_prompt, custom_inputs,
                   custom_outputs, outbound>>
    /\ UNCHANGED <<registryVars, managerVars, invokeVars, appVars, configVars, taskVars>>

\* The tool-result messages of a model response, in the order of its requests.
ResultsOf(response) ==
    IF response.type = "ai"
    THEN [k \in 1..Len(response.tool_calls) |-> ResultMessage(response.tool_calls[k])]
    ELSE << >>

\* Whether the tool calls of a response run to their join: none of them
\* raises an error that leaves the ToolNode.
Joins(response) ==
    response.type = "ai" => \A k \in 1..Len(response.tool_calls) :
                               ~ Propagates(response.tool_calls[k])

\* The history of a run that is not cancelled, after the first n model
\* responses and the results of their tool calls.
RECURSIVE UncancelledHistory(_)
UncancelledHistory(n) ==
    IF n = 0 THEN add_messages(<< >>, <<HumanMessage("query")>>)
    ELSE LET withResponse == add_messages(UncancelledHistory(n - 1), <<responses[n]>>)
         IN IF Joins(responses[n])
            THEN add_messages(withResponse, ResultsOf(responses[n]))
            ELSE withResponse

\* C24: when a query is cancelled while a model call or tool calls are in
\* flight, the history is a prefix, in whole messages, of the history the run
\* would have had without the cancellation, and the cancellation itself
\* appends nothing: no result of the abandoned calls is in the history.
C24_CancelledHistoryIsPrefix ==
    /\ [](pc = "cancelled" => IsPrefix(messages, UncancelledHistory(Len(responses))))
    /\ [][pc' = "cancelled" /\ pc # "cancelled" => messages' = messages]_vars

\* Cancelled in a TOOLS step after the later of two
\* requested calls had completed and before the earlier one had.
C24_Witness ==
    /\ pc = "cancelled"
    /\ lastNode = "agent"
    /\ Len(PendingCalls) = 2
    /\ doneOrder = <<2>>
    /\ toolRuns >= 1

\* ============================================================ get_mcp_tools

ToolNames == {"t", "u"}

\* The argument mappings a caller passes to a tool.
ArgValues == { << >>, <<"query">> }

\* The catalogs a server may list: its tool names are unique within the server.
Catalogs ==
    { c \in UNION { [1..n -> ToolNames] : n \in 0..Cardinality(ToolNames) } :
        \A i, j \in 1..Len(c) : i # j => c[i] # c[j] }

\* The descriptor client c's server reports for tool n. Its description (always
\* present here) and its schema tell the servers apart.
Descriptor(c, n) ==
    [name |-> n,
     description |-> <<"from", c>>,
     inputSchema |-> [properties |-> ("query" :> "string"),
                      required |-> IF c % 2 = 1 THEN {"query"} ELSE {}]]

\* The Python type a declared JSON type is mapped to; anything else is str.
FieldType(json_type) ==
    CASE json_type = "integer" -> "int"
      [] json_type = "number" -> "float"
      [] json_type = "boolean" -> "bool"
      [] json_type = "array" -> "list"
      [] json_type = "object" -> "dict"
      [] OTHER -> "str"

\* _create_tool_schema(input_schema): one field per entry of "properties",
\* with the mapped type; the field is mandatory when its name is in "required"
\* and defaults to None otherwise. Names of "required" that "properties" does
\* not declare get no field.
_create_tool_schema(input_schema) ==
    [field_name \in DOMAIN input_schema.properties |->
       [type |-> FieldType(input_schema.properties[field_name]),
        is_required |-> field_name \in input_schema.required]]

MapIndex(map, n) ==
    IF \E k \in 1..Len(map) : map[k].name = n
    THEN CHOOSE k \in 1..Len(map) : map[k].name = n
    ELSE 0

MapInsertKeepFirst(map, c, tool) ==
    IF MapIndex(map, tool.name) = 0
    THEN Append(map, [name |-> tool.name, client |-> c, tool |-> tool])
    ELSE map

\* tool_client_map[tool.name] = (mcp_client, tool): a new key is added at the
\* end, an existing key keeps its place and takes the new value.
MapInsert(map, c, tool) ==
    LET entry == [name |-> tool.name, client |-> c, tool |-> tool]
        at == MapIndex(map, tool.name)
    IN IF at = 0 THEN Append(map, entry) ELSE [map EXCEPT ![at] = entry]

RECURSIVE InsertAll(_, _, _)
InsertAll(map, c, tools) ==
    IF tools = << >> THEN map
    ELSE InsertAll(MapInsert(map, c, Head(tools)), c, Tail(tools))

FetchErrorSkipped == "skip"

\* What a failed _get_tools_async does to get_mcp_tools: the await is not
\* guarded, so the exception leaves the function.
FetchError == "raise"

\* One turn of the loop over mcp_clients: fetch the client's catalog and enter
\* its tools in the map.
FetchCatalog ==
    /\ rpc = "fetch"
    /\ Len(fetchLog) < Len(catalog)
    /\ LET c == Len(fetchLog) + 1
       IN \E ok \in BOOLEAN :
            /\ fetchLog' = Append(fetchLog, [client |-> c, ok |-> ok])
            /\ IF ok
               THEN /\ tool_client_map' =
                          InsertAll(tool_client_map, c,
                                    [k \in 1..Len(catalog[c]) |-> Descriptor(c, catalog[c][k])])
                    /\ rpc' = rpc
               ELSE /\ tool_client_map' = tool_client_map
                    /\ rpc' = IF FetchError = "raise" THEN "raised" ELSE rpc
    /\ UNCHANGED <<catalog, langchain_tools, invLog, callLog, lookupLog>>
    /\ UNCHANGED <<loopVars, managerVars, invokeVars, appVars, configVars, taskVars>>

DispatchTargetLateBinding(map, k) ==
    [client |-> map[Len(map)].client, tool_name |-> map[Len(map)].tool.name]

\* make_tool_func(mcp_client, mcp_tool.name): the closure keeps the client and
\* the name of the entry it was made for.
DispatchTarget(map, k) ==
    [client |-> map[k].client, tool_name |-> map[k].tool.name]

\* The StructuredTool built for entry k of the map.
LangchainTool(map, k) ==
    [name |-> map[k].tool.name,
     description |-> map[k].tool.description,
     args_schema |-> _create_tool_schema(map[k].tool.inputSchema),
     coroutine |-> DispatchTarget(map, k)]

\* The loop over the clients is over: one tool per entry of the map is built
\* and the list is returned.
BuildTools ==
    /\ rpc = "fetch"
    /\ Len(fetchLog) = Len(catalog)
    /\ langchain_tools' = [k \in 1..Len(tool_client_map) |-> LangchainTool(tool_client_map, k)]
    /\ rpc' = "returned"
    /\ UNCHANGED <<catalog, fetchLog, tool_client_map, invLog, callLog, lookupLog>>
    /\ UNCHANGED <<loopVars, managerVars, invokeVars, appVars, configVars, taskVars>>

\* call_mcp_tool(**kwargs): one _call_tools_async on the captured client with
\* the captured name and the caller's arguments.
InvokeTool ==
    /\ rpc = "returned"
    /\ Len(invLog) < MaxInvokes
    /\ \E k \in 1..Len(langchain_tools), kwargs \in ArgValues :
         LET tool == langchain_tools[k]
         IN /\ invLog' = Append(invLog, [tool |-> k, args |-> kwargs])
            /\ callLog' = Append(callLog, [client |-> tool.coroutine.client,
                                           name |-> tool.coroutine.tool_name,
                                           args |-> kwargs])
    /\ UNCHANGED <<catalog, rpc, fetchLog, tool_client_map, langchain_tools, lookupLog>>
    /\ UNCHANGED <<loopVars, managerVars, invokeVars, appVars, configVars, taskVars>>

\* The names get_tool_by_name is asked for: the catalog's names and one that no
\* server lists.
LookupNames == ToolNames \cup {"missing"}

NotFound == [found |-> FALSE, tool |-> 0]

get_tool_by_name_first_tool(tools, name) ==
    IF \E k \in 1..Len(tools) : tools[k].name = name
    THEN [found |-> TRUE,
          tool |-> CHOOSE k \in 1..Len(tools) :
                     /\ tools[k].name = name
                     /\ \A j \in 1..(k - 1) : tools[j].name # name]
    ELSE IF tools = << >> THEN NotFound ELSE [found |-> TRUE, tool |-> 1]

\* get_tool_by_name(tools, name): the first tool of the list whose name is the
\* one asked for; when the loop ends without a match, ValueError is raised
\* (NotFound).
get_tool_by_name(tools, name) ==
    IF \E k \in 1..Len(tools) : tools[k].name = name
    THEN [found |-> TRUE,
          tool |-> CHOOSE k \in 1..Len(tools) :
                     /\ tools[k].name = name
                     /\ \A j \in 1..(k - 1) : tools[j].name # name]
    ELSE NotFound

\* A caller looks a tool up by name in the returned list.
GetToolByName ==
    /\ rpc = "returned"
    /\ Len(invLog) + Len(lookupLog) < MaxInvokes
    /\ \E name \in LookupNames :
         lookupLog' = Append(lookupLog,
                             [name |-> name,
                              result |-> get_tool_by_name(langchain_tools, name)])
    /\ UNCHANGED <<catalog, rpc, fetchLog, tool_client_map, langchain_tools, invLog,
                   callLog>>
    /\ UNCHANGED <<loopVars, managerVars, invokeVars, appVars, configVars, taskVars>>

\* --------------------------------------------------- the registry's properties

\* The clients whose catalog lists tool n.
ClientsWith(n) == { c \in 1..Len(catalog) : n \in Range(catalog[c]) }

\* The last of them in the order the clients were given.
LastClientWith(n) == CHOOSE c \in ClientsWith(n) : \A d \in ClientsWith(n) : d <= c

ToolsNamed(n) == { k \in 1..Len(langchain_tools) : langchain_tools[k].name = n }

\* C7: when two clients both list a tool of the same name, the returned list
\* holds exactly one tool of that name, built from the descriptor of the later
\* client, and every invocation of it calls the later client, never an earlier
\* one.
C7_LaterConnectionWins ==
    rpc = "returned" =>
      \A n \in ToolNames :
        Cardinality(ClientsWith(n)) >= 2 =>
          LET later == LastClientWith(n)
          IN /\ Cardinality(ToolsNamed(n)) = 1
             /\ \A k \in ToolsNamed(n) :
                  /\ langchain_tools[k].description = Descriptor(later, n).description
                  /\ langchain_tools[k].args_schema =
                       _create_tool_schema(Descriptor(later, n).inputSchema)
             /\ \A i \in 1..Len(invLog) :
                  invLog[i].tool \in ToolsNamed(n) =>
                    /\ callLog[i].client = later
                    /\ callLog[i].client \notin ClientsWith(n) \ {later}

C7_Witness ==
    /\ rpc = "returned"
    /\ Len(catalog) = 2
    /\ ClientsWith("t") = {1, 2}
    /\ invLog # << >>
    /\ invLog[1].tool \in ToolsNamed("t")
    /\ callLog[1].client = 2

C9_FetchFailureFailsConstruction ==
    (\E i \in 1..Len(fetchLog) : ~ fetchLog[i].ok) =>
       /\ rpc = "raised"
       /\ ~ fetchLog[Len(fetchLog)].ok
       /\ \A i \in 1..(Len(fetchLog) - 1) : fetchLog[i].ok
       /\ langchain_tools = << >>
       /\ invLog = << >>
       /\ callLog = << >>

C9_Witness ==
    /\ rpc = "raised"
    /\ Len(fetchLog) = 2
    /\ fetchLog[1].ok

\* The names of the tools get_mcp_tools returned.
AggregatedNames == { langchain_tools[k].name : k \in 1..Len(langchain_tools) }

\* C11: looking up a name that no returned tool bears raises the not-found
\* error and hands out no tool; the step in which a lookup is made invokes
\* nothing and makes no remote call on any client.
C11_AbsentNameIsNotFound ==
    /\ [](\A i \in 1..Len(lookupLog) :
           lookupLog[i].name \notin AggregatedNames =>
             /\ ~ lookupLog[i].result.found
             /\ lookupLog[i].result.tool \notin 1..Len(langchain_tools))
    /\ [][lookupLog' # lookupLog => (callLog' = callLog /\ invLog' = invLog)]_vars

C11_Witness ==
    /\ langchain_tools # << >>
    /\ \E i \in 1..Len(lookupLog) :
         /\ lookupLog[i].name \notin AggregatedNames
         /\ ~ lookupLog[i].result.found
    /\ \E i \in 1..Len(lookupLog) : lookupLog[i].result.found
    /\ tool_client_map # << >>

\* ===================================================== StructuredTool.ainvoke

ParamNames == {"query", "limit"}

\* Argument values a caller passes: a string that is no number, and an integer.
PyValues == { [type |-> "str", repr |-> "abc"], [type |-> "int", repr |-> "7"] }

\* The argument mappings a caller passes; "query" is given a string when given.
Kwargs ==
    { kw \in UNION { [D -> PyValues] : D \in SUBSET ParamNames } :
        "query" \in DOMAIN kw => kw["query"].type = "str" }

\* The inputSchema a server may report for its tool: a required and an optional
\* declared parameter, no required one, a required integer, and a "required"
\* name that "properties" does not declare.
InputSchemas ==
    { [properties |-> ("query" :> "string") @@ ("limit" :> "integer"),
       required |-> {"query"}],
      [properties |-> ("query" :> "string"), required |-> {}],
      [properties |-> ("limit" :> "integer"), required |-> {"limit"}],
      [properties |-> ("limit" :> "integer"), required |-> {"query"}] }

\* The entry of tool_client_map when client c lists a tool "t" with the given
\* inputSchema.
MapEntry(c, input_schema) ==
    [name |-> "t", client |-> c,
     tool |-> [name |-> "t", description |-> <<"from", c>>,
               inputSchema |-> input_schema]]

\* pydantic's check of one value against a field's type: a str field takes a
\* string, an int field takes an integer and no string that is not a number.
Accepts(field_type, value) == value.type = field_type

\* The fields the args_schema model rejects the input for: mandatory fields the
\* input lacks, and fields given a value of another type.
ValidationErrors(args_schema, tool_input) ==
    { n \in DOMAIN args_schema :
        \/ args_schema[n].is_required /\ n \notin DOMAIN tool_input
        \/ n \in DOMAIN tool_input /\ ~ Accepts(args_schema[n].type, tool_input[n]) }

\* What the validated input hands to the coroutine: the model's fields that
\* the caller gave; keys the model does not declare are dropped.
ParsedInput(args_schema, tool_input) ==
    [n \in DOMAIN args_schema \cap DOMAIN tool_input |-> tool_input[n]]

\* --------------------------------------------- what the remote call returns

TextItem(t) == [hasText |-> TRUE, text |-> t, hasContent |-> FALSE, content |-> ""]
NestedItem(c) == [hasText |-> FALSE, text |-> "", hasContent |-> TRUE, content |-> c]
BothItem(t, c) == [hasText |-> TRUE, text |-> t, hasContent |-> TRUE, content |-> c]
OpaqueItem == [hasText |-> FALSE, text |-> "", hasContent |-> FALSE, content |-> ""]

ContentLists ==
    { << >>,
      <<TextItem("x")>>, <<NestedItem("n")>>, <<BothItem("x", "n")>>, <<OpaqueItem>>,
      <<TextItem("x"), TextItem("y")>>, <<OpaqueItem, TextItem("y")>> }

\* A result object: with or without a content attribute, with its error flag.
RemoteResults ==
    { [hasContent |-> FALSE, content |-> << >>, isError |-> FALSE] }
      \cup { [hasContent |-> TRUE, content |-> c, isError |-> FALSE] : c \in ContentLists }
      \cup { [hasContent |-> TRUE, content |-> c, isError |-> TRUE] :
               c \in { << >>, <<TextItem("x")>> } }

NoResult == [hasContent |-> FALSE, content |-> << >>, isError |-> FALSE]
NoOutput == <<"none">>
NoCall == [client |-> 0, name |-> "", args |-> << >>]

UnwrapLastItem(result) ==
    IF result.hasContent /\ result.content # << >>
    THEN LET content_item == result.content[Len(result.content)]
         IN IF content_item.hasText THEN <<"value", content_item.text>>
            ELSE IF content_item.hasContent THEN <<"value", content_item.content>>
            ELSE <<"str(item)", content_item>>
    ELSE <<"str(result)", result>>

\* What call_mcp_tool returns for a result: from the first content item its
\* text, else its content, else str(item); str(result) when the result has no
\* content attribute or an empty content.
Unwrap(result) ==
    IF result.hasContent /\ result.content # << >>
    THEN LET content_item == result.content[1]
         IN IF content_item.hasText THEN <<"value", content_item.text>>
            ELSE IF content_item.hasContent THEN <<"value", content_item.content>>
            ELSE <<"str(item)", content_item>>
    ELSE <<"str(result)", result>>

\* ------------------------------------------------------------- the invocation

\* structured_tool.ainvoke(kwargs) up to its await: the input is validated
\* against args_schema; a rejected input raises and the coroutine is not
\* entered; an accepted one enters call_mcp_tool, which sends the call to the
\* captured client.
AInvoke ==
    /\ Cardinality(runs) + Len(inflight) < MaxInvokes
    /\ inflight = << >>
    /\ \E kwargs \in Kwargs :
         IF ValidationErrors(structured_tool.args_schema, kwargs) # {}
         THEN /\ runs' = runs \cup { [kwargs |-> kwargs, outcome |-> "invalid_arguments",
                                      call |-> NoCall, result |-> NoResult,
                                      output |-> NoOutput] }
              /\ inflight' = inflight
         ELSE /\ inflight' =
                   Append(inflight,
                          [kwargs |-> kwargs,
                           call |-> [client |-> structured_tool.coroutine.client,
                                     name |-> structured_tool.coroutine.tool_name,
                                     args |-> ParsedInput(structured_tool.args_schema,
                                                          kwargs)]])
              /\ runs' = runs
    /\ UNCHANGED <<mcp_tool, structured_tool, validators>>
    /\ UNCHANGED <<loopVars, registryVars, managerVars, appVars, configVars, taskVars>>

\* The awaited call returns a result and call_mcp_tool returns its output.
RemoteReturns ==
    /\ inflight # << >>
    /\ \E result \in RemoteResults :
         runs' = runs \cup { [kwargs |-> Head(inflight).kwargs, outcome |-> "returned",
                              call |-> Head(inflight).call, result |-> result,
                              output |-> Unwrap(result)] }
    /\ inflight' = Tail(inflight)
    /\ UNCHANGED <<mcp_tool, structured_tool, validators>>
    /\ UNCHANGED <<loopVars, registryVars, managerVars, appVars, configVars, taskVars>>

\* The awaited call raises: nothing in call_mcp_tool catches it.
RemoteRaises ==
    /\ inflight # << >>
    /\ runs' = runs \cup { [kwargs |-> Head(inflight).kwargs, outcome |-> "raised",
                            call |-> Head(inflight).call, result |-> NoResult,
                            output |-> NoOutput] }
    /\ inflight' = Tail(inflight)
    /\ UNCHANGED <<mcp_tool, structured_tool, validators>>
    /\ UNCHANGED <<loopVars, registryVars, managerVars, appVars, configVars, taskVars>>

\* ------------------------------------------------------- concurrent invocations

\* The schemas of the two registered tools: those that declare "query".
TaskSchemas == { s \in InputSchemas : "query" \in DOMAIN s.properties }

\* The entry of tool_client_map for a second tool, "u", listed by client c.
PeerEntry(c, input_schema) ==
    [MapEntry(c, input_schema) EXCEPT !.name = "u", !.tool.name = "u"]

\* The server's answer to a call: one text item that repeats the call, so that
\* the answers to different calls differ.
Reply(call) == [hasContent |-> TRUE, content |-> <<TextItem(call)>>, isError |-> FALSE]

LatestFrame(frames, i) == frames[Len(frames)]

\* The locals of invocation i of call_mcp_tool (kwargs, result, content_item)
\* and the cells of its closure: each call of the coroutine has its own.
LocalFrame(frames, i) == frames[i]

\* A task calls tool k with kwargs and runs up to the await: a rejected input
\* raises before the coroutine is entered; an accepted one sends the call on
\* the captured client and suspends.
TaskStart ==
    /\ Len(tasks) < MaxInvokes
    /\ \E k \in 1..Len(task_tools), kwargs \in Kwargs :
         LET tool == task_tools[k]
             call == [client |-> tool.coroutine.client,
                      name |-> tool.coroutine.tool_name,
                      args |-> ParsedInput(tool.args_schema, kwargs)]
         IN IF ValidationErrors(tool.args_schema, kwargs) # {}
            THEN /\ tasks' = Append(tasks, [tool |-> k, kwargs |-> kwargs, pc |-> "invalid",
                                            call |-> NoCall, result |-> NoResult,
                                            output |-> NoOutput])
                 /\ sessions' = sessions
            ELSE /\ tasks' = Append(tasks, [tool |-> k, kwargs |-> kwargs, pc |-> "awaiting",
                                            call |-> call, result |-> NoResult,
                                            output |-> NoOutput])
                 /\ sessions' = [sessions EXCEPT ![call.client] = Append(@, call)]
    /\ UNCHANGED <<task_map, task_tools>>
    /\ UNCHANGED <<loopVars, registryVars, managerVars, invokeVars, appVars, configVars>>

\* The await of task i completes with the answer to its call, and the rest of
\* call_mcp_tool runs to its return without another await.
TaskReturns ==
    /\ \E i \in 1..Len(tasks) :
         /\ tasks[i].pc = "awaiting"
         /\ LET result == Reply(LocalFrame(tasks, i).call)
            IN tasks' = [tasks EXCEPT ![i].pc = "returned",
                                      ![i].result = result,
                                      ![i].output = Unwrap(result)]
    /\ UNCHANGED <<task_map, task_tools, sessions>>
    /\ UNCHANGED <<loopVars, registryVars, managerVars, invokeVars, appVars, configVars>>

\* The await of task i raises; nothing in call_mcp_tool catches it.
TaskRaises ==
    /\ \E i \in 1..Len(tasks) :
         /\ tasks[i].pc = "awaiting"
         /\ tasks' = [tasks EXCEPT ![i].pc = "raised"]
    /\ UNCHANGED <<task_map, task_tools, sessions>>
    /\ UNCHANGED <<loopVars, registryVars, managerVars, invokeVars, appVars, configVars>>

\* The call invocation i has to make: on the client and under the name of the
\* map entry its tool was built for, with the validated input of its own kwargs.
OwnCall(i) ==
    LET entry == task_map[tasks[i].tool]
    IN [client |-> entry.client,
        name |-> entry.tool.name,
        args |-> ParsedInput(_create_tool_schema(entry.tool.inputSchema), tasks[i].kwargs)]

\* The calls that the invocations so far have to make on client c, in order.
RECURSIVE OwnCallsTo(_, _)
OwnCallsTo(c, n) ==
    IF n = 0 THEN << >>
    ELSE IF tasks[n].pc # "invalid" /\ task_map[tasks[n].tool].client = c
         THEN Append(OwnCallsTo(c, n - 1), OwnCall(n))
         ELSE OwnCallsTo(c, n - 1)

\* C23: however the invocations interleave, each sends its own validated
\* arguments under its own tool's name to its own tool's client, each client
\* receives exactly the calls meant for it, an invocation that returned gives
\* the output unwrapped from the answer to its own call, and a step of one
\* invocation changes no other invocation's frame nor the registered tools.
C23_InvocationsIndependent ==
    /\ [](/\ \A i \in 1..Len(tasks) :
              /\ tasks[i].pc # "invalid" => tasks[i].call = OwnCall(i)
              /\ tasks[i].pc = "returned" =>
                    /\ tasks[i].result = Reply(OwnCall(i))
                    /\ tasks[i].output = Unwrap(Reply(OwnCall(i)))
           /\ \A c \in DOMAIN sessions : sessions[c] = OwnCallsTo(c, Len(tasks)))
    /\ [][/\ task_tools' = task_tools
          /\ task_map' = task_map
          /\ Cardinality({ i \in 1..Len(tasks) : tasks'[i] # tasks[i] }) <= 1]_vars

\* Two invocations of different tools on different clients were in flight
\* together, and the one started later has returned while the other still waits.
C23_Witness ==
    /\ Len(tasks) >= 2
    /\ tasks[1].pc = "awaiting"
    /\ tasks[2].pc = "returned"
    /\ tasks[1].tool # tasks[2].tool
    /\ tasks[1].call.client # tasks[2].call.client
    /\ tasks[1].call.args # tasks[2].call.args

SchemaAfterBuildWithoutRequired(input_schema) == [input_schema EXCEPT !.required = {}]

\* What _create_tool_schema leaves of the dict it was given: it reads
\* "properties" and "required" with .get and each property with .get, and
\* assigns only to its own `fields`.
SchemaAfterBuild(input_schema) == input_schema

\* _create_tool_schema is called again on the entry's inputSchema (get_mcp_tools
\* is run again on the same descriptor).
BuildSchema ==
    /\ Len(validators) < MaxBuilds
    /\ validators' = Append(validators, _create_tool_schema(mcp_tool.tool.inputSchema))
    /\ mcp_tool' = [mcp_tool EXCEPT !.tool.inputSchema = SchemaAfterBuild(@)]
    /\ UNCHANGED <<structured_tool, inflight, runs>>
    /\ UNCHANGED <<loopVars, registryVars, managerVars, appVars, configVars, taskVars>>

\* ------------------------------------------------ the invocation's properties

\* A validator accepts an argument mapping when it raises no validation error.
AcceptsInput(args_schema, kwargs) == ValidationErrors(args_schema, kwargs) = {}

C12_RequiredParametersEnforced ==
    LET required == mcp_tool.tool.inputSchema.required
    IN /\ \A r \in runs :
            /\ required \ DOMAIN r.kwargs # {} =>
                  (r.outcome = "invalid_arguments" /\ r.call = NoCall)
            /\ required \subseteq DOMAIN r.kwargs =>
                  (r.outcome # "invalid_arguments" /\ r.call.client = mcp_tool.client)
       /\ \A i \in 1..Len(inflight) : required \subseteq DOMAIN inflight[i].kwargs

\* The invocations whose remote call returned a result.
Returned == { r \in runs : r.outcome = "returned" }

HasItems(result) == result.hasContent /\ result.content # << >>

\* C13: the output of an invocation is the text of the result's first content
\* item when that item has a text attribute, else the item's content
\* attribute when it has one, else the item's string form; it is the result's
\* string form when the result has no content attribute or an empty content
\* list; two results with the same first item give the same output, whatever
\* follows the first item.
C13_OutputFromFirstItem ==
    \A r \in Returned :
      LET first == r.result.content[1]
      IN /\ HasItems(r.result) /\ first.hasText => r.output = <<"value", first.text>>
         /\ HasItems(r.result) /\ ~ first.hasText /\ first.hasContent =>
               r.output = <<"value", first.content>>
         /\ HasItems(r.result) /\ ~ first.hasText /\ ~ first.hasContent =>
               r.output = <<"str(item)", first>>
         /\ ~ HasItems(r.result) => r.output = <<"str(result)", r.result>>
         /\ \A s \in Returned :
               (/\ HasItems(r.result)
                /\ HasItems(s.result)
                /\ s.result.content[1] = first) => s.output = r.output

C13_Witness ==
    /\ \E r, s \in Returned :
         /\ Len(r.result.content) = 1
         /\ Len(s.result.content) = 2
         /\ r.result.content[1] = s.result.content[1]
         /\ s.result.content[2] # s.result.content[1]
         /\ r.output = s.output

\* C14: a result whose error flag is set gives an output that describes the
\* failure: it is not empty and it differs from the output of every result
\* whose error flag is not set.
C14_ErrorFlagSurfaces ==
    \A r \in Returned :
      r.result.isError =>
        /\ r.output # <<"value", "">>
        /\ \A s \in Returned : ~ s.result.isError => s.output # r.output

\* ========================================================= MCPClientManager

Urls == {"u1", "u2"}

UrlLists == UNION { [1..n -> Urls] : n \in 0..MaxUrls }

\* self._client is None.
NoClient == [held |-> FALSE, connections |-> << >>]

\* MultiServerMCPClient(connections).
MultiServerMCPClient(connections) == [held |-> TRUE, connections |-> connections]

\* get_all_server_urls: the managed URLs, then the external ones.
get_all_server_urls == databricks_server_urls \o external_server_urls

NoUrlsNeverRaises(all_urls) == FALSE

\* "if not all_urls": no server URL is configured.
NoUrls(all_urls) == all_urls = << >>

ConnectionsKeyedByUrl(all_urls) ==
    LET firsts == { i \in 1..Len(all_urls) :
                      \A j \in 1..(i - 1) : all_urls[j] # all_urls[i] }
        nth(k) == CHOOSE i \in firsts : Cardinality({ j \in firsts : j < i }) = k - 1
    IN [k \in 1..Cardinality(firsts) |->
          [name |-> k - 1,
           url |-> all_urls[nth(k)],
           auth |-> all_urls[nth(k)] \in Range(databricks_server_urls)]]

ConnectionsAuthByPosition(all_urls) ==
    [idx \in 1..Len(all_urls) |->
        [name |-> idx - 1,
         url |-> all_urls[idx],
         auth |-> idx <= Len(databricks_server_urls)]]

\* The connections get_tools builds, one per position of all_urls.
Connections(all_urls) ==
    [idx \in 1..Len(all_urls) |->
        [name |-> idx - 1,
         url |-> all_urls[idx],
         auth |-> all_urls[idx] \in Range(databricks_server_urls)]]

\* get_tools: build the client if none is held, then fetch the tools of all
\* servers through it.
GetTools ==
    /\ getToolsCalls + closeCalls < MaxOps
    /\ getToolsCalls' = getToolsCalls + 1
    /\ \E fetched \in BOOLEAN :
         IF client = NoClient /\ NoUrls(get_all_server_urls)
         THEN /\ urlReads' = urlReads + 1
              /\ lastResult' = "config_error"
              /\ UNCHANGED <<client, authProviders, clientsBuilt, netCalls>>
         ELSE /\ IF client = NoClient
                 THEN /\ urlReads' = urlReads + 1
                      /\ authProviders' = authProviders + 1
                      /\ client' = MultiServerMCPClient(Connections(get_all_server_urls))
                      /\ clientsBuilt' = clientsBuilt + 1
                 ELSE UNCHANGED <<urlReads, authProviders, client, clientsBuilt>>
              /\ netCalls' = netCalls + 1
              /\ lastResult' = IF fetched THEN "tools" ELSE "fetch_error"
    /\ UNCHANGED <<databricks_server_urls, external_server_urls, closeCalls>>
    /\ UNCHANGED <<loopVars, registryVars, invokeVars, appVars, configVars, taskVars>>

CloseKeepsClient ==
    /\ getToolsCalls + closeCalls < MaxOps
    /\ closeCalls' = closeCalls + 1
    /\ client' = client
    /\ UNCHANGED <<databricks_server_urls, external_server_urls, authProviders,
                   clientsBuilt, urlReads, netCalls, getToolsCalls, lastResult>>
    /\ UNCHANGED <<loopVars, registryVars, invokeVars, appVars, configVars, taskVars>>

\* close: drop the reference to the client.
Close ==
    /\ getToolsCalls + closeCalls < MaxOps
    /\ closeCalls' = closeCalls + 1
    /\ client' = NoClient
    /\ UNCHANGED <<databricks_server_urls, external_server_urls, authProviders,
                   clientsBuilt, urlReads, netCalls, getToolsCalls, lastResult>>
    /\ UNCHANGED <<loopVars, registryVars, invokeVars, appVars, configVars, taskVars>>

\* ---------------------------------------------------- the manager's properties

\* C10: with no server URL configured in either list, get_tools raises the
\* configuration error and nothing has been made: no auth provider, no
\* multi-server client, no catalog fetch.
C10_NoUrlsRaisesBeforeAnything ==
    (databricks_server_urls = << >> /\ external_server_urls = << >>) =>
       /\ client = NoClient
       /\ authProviders = 0
       /\ clientsBuilt = 0
       /\ netCalls = 0
       /\ getToolsCalls > 0 => lastResult = "config_error"

C10_Witness ==
    /\ databricks_server_urls = << >>
    /\ external_server_urls = << >>
    /\ getToolsCalls > 1
    /\ closeCalls > 0
    /\ lastResult = "config_error"

GetToolsStep == getToolsCalls' = getToolsCalls + 1

\* The parts of C26 that do not depend on the configuration: a client is
\* constructed only by a get_tools call made while none is held; a get_tools
\* call made while one is held keeps it, reads no URL list and does not raise
\* the configuration error; close leaves no client held.
ClientLifecycle ==
    /\ clientsBuilt' # clientsBuilt =>
          /\ GetToolsStep
          /\ ~ client.held
          /\ client'.held
          /\ clientsBuilt' = clientsBuilt + 1
    /\ (GetToolsStep /\ client.held) =>
          /\ client' = client
          /\ clientsBuilt' = clientsBuilt
          /\ urlReads' = urlReads
          /\ authProviders' = authProviders
          /\ lastResult' # "config_error"
    /\ closeCalls' # closeCalls => ~ client'.held

\* C26 as stated: the lifecycle above, and the first get_tools after a close
\* constructs a new client.
C26_ClientReusedUntilClosed ==
    [][/\ ClientLifecycle
       /\ (GetToolsStep /\ ~ client.held /\ closeCalls > 0) =>
             (client'.held /\ clientsBuilt' = clientsBuilt + 1)]_vars

\* C26, amended: the lifecycle above, and a get_tools call made while no
\* client is held (the first one, or the first after a close) constructs a
\* new client when at least one URL is configured; with no URL configured it
\* raises the configuration error and the manager still holds no client.
C26_ClientRebuiltWhenConfigured ==
    [][/\ ClientLifecycle
       /\ (GetToolsStep /\ ~ client.held) =>
             IF Len(databricks_server_urls) + Len(external_server_urls) > 0
             THEN client'.held /\ clientsBuilt' = clientsBuilt + 1
             ELSE /\ ~ client'.held
                  /\ clientsBuilt' = clientsBuilt
                  /\ lastResult' = "config_error"]_vars

C26_Witness ==
    /\ client.held
    /\ clientsBuilt = 2
    /\ closeCalls = 1
    /\ getToolsCalls = 2

\* C27: a connection of the held client carries the workspace auth provider
\* exactly when its URL is in the managed list, wherever the connection
\* stands: a URL configured in both lists carries it on its external
\* connection too, and a URL configured only in the external list never does.
C27_AuthByUrlMembership ==
    client.held =>
      \A i \in 1..Len(client.connections) :
        LET conn == client.connections[i]
        IN /\ conn.auth <=> (\E k \in 1..Len(databricks_server_urls) :
                                databricks_server_urls[k] = conn.url)
           /\ (/\ \E k \in 1..Len(external_server_urls) :
                     external_server_urls[k] = conn.url
               /\ \A k \in 1..Len(databricks_server_urls) :
                     databricks_server_urls[k] # conn.url) => ~ conn.auth

C27_Witness ==
    /\ client.held
    /\ databricks_server_urls = <<"u1">>
    /\ external_server_urls = <<"u1", "u2">>
    /\ client.connections[2].auth
    /\ ~ client.connections[3].auth

\* ============================================================ LangGraphMCPApp

\* self.system_prompt: the caller's, or the default text.
AppPrompt == "prompt"

\* How an initialize() call ends: ValueError for the missing workspace URL,
\* an exception out of get_tools or of the model's construction, or success.
InitializeOutcomes == {"no_workspace_url", "raised_after_manager", "ok"}

\* initialize(): without a workspace URL it raises before anything is
\* assigned; otherwise the manager is assigned first, and the agent only after
\* get_tools and the model's construction have succeeded.
Initialize ==
    /\ pc \notin {"agent", "tools"}
    /\ \E outcome \in InitializeOutcomes :
         /\ mcp_manager' = IF outcome = "no_workspace_url" THEN mcp_manager ELSE "manager"
         /\ agent' = IF outcome = "ok" THEN "compiled" ELSE agent
         /\ system_prompt' = IF outcome = "ok" THEN AppPrompt ELSE system_prompt
    /\ UNCHANGED <<queryCalls, lastQuery>>
    /\ UNCHANGED <<messages, pc, lastNode, steps, modelCalls, responses, toolRuns,
                   doneOrder, alwaysCalls, answersAt, build, failing, custom_inputs,
                   custom_outputs, outbound>>
    /\ UNCHANGED <<registryVars, managerVars, invokeVars, configVars, taskVars>>

NotInitializedNever(a) == FALSE

\* `if not self.agent`
NotInitialized(a) == a = "None"

\* The body shared by run_query and run_query_stream (the generator's body
\* runs when it is first iterated): the guard, then the graph is started on
\* {"messages": [HumanMessage(query)]}.
Query(kind) ==
    /\ pc \notin {"agent", "tools"}
    /\ queryCalls < MaxQueries
    /\ queryCalls' = queryCalls + 1
    /\ IF NotInitialized(agent)
       THEN /\ lastQuery' = [kind |-> kind, outcome |-> "not_initialized"]
            /\ UNCHANGED loopVars
       ELSE /\ lastQuery' = [kind |-> kind, outcome |-> "started"]
            /\ messages' = add_messages(<< >>, <<HumanMessage("query")>>)
            /\ pc' = "agent"
            /\ lastNode' = "none"
            /\ steps' = 0
            /\ modelCalls' = 0
            /\ responses' = << >>
            /\ toolRuns' = 0
            /\ doneOrder' = << >>
            /\ custom_inputs' = << >>
            /\ custom_outputs' = << >>
            /\ outbound' = << >>
            /\ UNCHANGED <<alwaysCalls, answersAt, build, failing, system_prompt>>
    /\ UNCHANGED <<agent, mcp_manager>>
    /\ UNCHANGED <<registryVars, managerVars, invokeVars, configVars, taskVars>>

RunQuery == Query("run_query")

RunQueryStream == Query("run_query_stream")

\* ----------------------------------------------- the application's properties

\* C15: a run_query or run_query_stream made while no initialize() has
\* completed successfully ends with the not-initialized error, calls neither
\* the model nor a tool, and changes nothing of the application, of its agent
\* loop or of its connections; and as long as no initialize() has succeeded no
\* model call and no tool call has been made at all.
C15_QueryBeforeInitializeFails ==
    /\ [](agent = "None" =>
            /\ modelCalls = 0
            /\ toolRuns = 0
            /\ messages = << >>
            /\ lastQuery.outcome \in {"none", "not_initialized"})
    /\ [][(queryCalls' # queryCalls /\ agent = "None") =>
            /\ lastQuery'.outcome = "not_initialized"
            /\ UNCHANGED <<agent, mcp_manager>>
            /\ UNCHANGED <<loopVars, registryVars, managerVars, invokeVars, configVars, taskVars>>]_vars

C15_Witness ==
    /\ agent = "None"
    /\ mcp_manager = "manager"
    /\ queryCalls = 2
    /\ lastQuery = [kind |-> "run_query_stream", outcome |-> "not_initialized"]

\* ======================================================= server configuration

\* Strings are sequences of characters.
Strings(chars, n) == UNION { [1..k -> chars] : k \in 0..n }

\* The characters of a workspace URL or of a server path.
UrlChars == {"/", "a"}

\* The characters of an environment variable's value.
EnvChars == {",", " ", "a", "b"}

RStripOnce(s, c) ==
    IF s # << >> /\ s[Len(s)] = c THEN SubSeq(s, 1, Len(s) - 1) ELSE s

\* s.rstrip(c): every trailing c is removed.
RECURSIVE RStrip(_, _)
RStrip(s, c) ==
    IF s # << >> /\ s[Len(s)] = c THEN RStrip(SubSeq(s, 1, Len(s) - 1), c) ELSE s

\* s.lstrip(c)
RECURSIVE LStrip(_, _)
LStrip(s, c) ==
    IF s # << >> /\ s[1] = c THEN LStrip(Tail(s), c) ELSE s

StartsWith(s, c) == s # << >> /\ s[1] = c

\* build_databricks_server_urls: the base loses its trailing slashes; a path
\* that does not start with a slash is given one; the two are concatenated.
build_databricks_server_urls(workspace_url, server_paths) ==
    LET base == RStrip(workspace_url, "/")
    IN [i \in 1..Len(server_paths) |->
          LET path == server_paths[i]
          IN base \o (IF ~ StartsWith(path, "/") THEN <<"/">> \o path ELSE path)]

StripNothing(s) == s

\* s.strip(): leading and trailing whitespace is removed.
Strip(s) == LStrip(RStrip(s, " "), " ")

\* s.split(sep): the pieces between the separators, empty pieces included.
RECURSIVE Split(_, _)
Split(s, sep) ==
    IF \E i \in 1..Len(s) : s[i] = sep
    THEN LET at == CHOOSE i \in 1..Len(s) :
                     s[i] = sep /\ \A j \in 1..(i - 1) : s[j] # sep
         IN <<SubSeq(s, 1, at - 1)>> \o Split(SubSeq(s, at + 1, Len(s)), sep)
    ELSE <<s>>

NonEmpty(s) == s # << >>

\* An unset variable reads as the default "".
GetEnv(env) == IF env.set THEN env.value ELSE << >>

\* parse_server_list_from_env: [] for a blank value; otherwise the pieces
\* between commas, each stripped, the empty ones dropped.
parse_server_list_from_env(env) ==
    LET servers_str == GetEnv(env)
    IN IF Strip(servers_str) = << >>
       THEN << >>
       ELSE LET pieces == Split(servers_str, ",")
                servers == [i \in 1..Len(pieces) |-> Strip(pieces[i])]
            IN SelectSeq(servers, NonEmpty)

\* The calls made: a workspace URL with no, one or two paths, or an
\* environment variable that is unset or holds a value.
ConfigCalls ==
    LET paths == Strings(UrlChars, MaxStrLen)
        lists == {<< >>} \cup { <<p>> : p \in paths } \cup { <<p, q>> : p, q \in paths }
    IN { [fn |-> "build_databricks_server_urls", workspace_url |-> b,
          server_paths |-> l, env |-> [set |-> FALSE, value |-> << >>]] :
           b \in Strings(UrlChars, MaxStrLen), l \in lists }
       \cup
       { [fn |-> "parse_server_list_from_env", workspace_url |-> << >>,
          server_paths |-> << >>, env |-> v] :
           v \in { [set |-> FALSE, value |-> << >>] }
                   \cup { [set |-> TRUE, value |-> s] : s \in Strings(EnvChars, MaxEnvLen) } }

BuildUrls ==
    /\ config_pc = "called"
    /\ config_call.fn = "build_databricks_server_urls"
    /\ config_ret' = build_databricks_server_urls(config_call.workspace_url,
                                                  config_call.server_paths)
    /\ config_pc' = "returned"
    /\ UNCHANGED config_call
    /\ UNCHANGED <<loopVars, registryVars, managerVars, invokeVars, appVars, taskVars>>

ParseEnv ==
    /\ config_pc = "called"
    /\ config_call.fn = "parse_server_list_from_env"
    /\ config_ret' = parse_server_list_from_env(config_call.env)
    /\ config_pc' = "returned"
    /\ UNCHANGED config_call
    /\ UNCHANGED <<loopVars, registryVars, managerVars, invokeVars, appVars, taskVars>>

\* ------------------------------------------- the configuration's properties

Built == config_pc = "returned" /\ config_call.fn = "build_databricks_server_urls"

\* s without its trailing slashes: the prefix of s that does not end in a
\* slash and is followed in s by slashes only.
WithoutTrailingSlashes(s) ==
    CHOOSE t \in { SubSeq(s, 1, k) : k \in 0..Len(s) } :
      /\ ~ (t # << >> /\ t[Len(t)] = "/")
      /\ \A i \in (Len(t) + 1)..Len(s) : s[i] = "/"

\* s without its leading slashes.
WithoutLeadingSlashes(s) ==
    CHOOSE t \in { SubSeq(s, k + 1, Len(s)) : k \in 0..Len(s) } :
      /\ ~ (t # << >> /\ t[1] = "/")
      /\ \A i \in 1..(Len(s) - Len(t)) : s[i] = "/"

\* C19 as stated: one URL per path, in the order of the paths, each the base
\* without its trailing slashes, one slash, and the path without its leading
\* slashes.
C19_ExactlyOneSlash ==
    Built =>
      /\ Len(config_ret) = Len(config_call.server_paths)
      /\ \A i \in 1..Len(config_ret) :
           config_ret[i] = WithoutTrailingSlashes(config_call.workspace_url)
                             \o <<"/">>
                             \o WithoutLeadingSlashes(config_call.server_paths[i])

\* C19, amended: one URL per path, in the order of the paths, each the base
\* without its trailing slashes followed by the path as given when the path
\* begins with a slash, and by one slash and the path when it does not; the
\* two readings agree exactly for the paths that begin with at most one slash.
C19_SlashAddedWhenMissing ==
    Built =>
      /\ Len(config_ret) = Len(config_call.server_paths)
      /\ \A i \in 1..Len(config_ret) :
           LET path == config_call.server_paths[i]
               base == WithoutTrailingSlashes(config_call.workspace_url)
               one == base \o <<"/">> \o WithoutLeadingSlashes(path)
           IN /\ (path # << >> /\ path[1] = "/") => config_ret[i] = base \o path
              /\ ~ (path # << >> /\ path[1] = "/") => config_ret[i] = base \o <<"/">> \o path
              /\ (config_ret[i] = one) <=> ~ (Len(path) >= 2 /\ path[1] = "/" /\ path[2] = "/")

C19_Witness ==
    /\ Built
    /\ config_call.workspace_url = <<"a", "/", "/">>
    /\ config_call.server_paths = << <<"/", "/", "a">>, <<"a">> >>
    /\ config_ret = << <<"a", "/", "/", "a">>, <<"a", "/", "a">> >>

Parsed == config_pc = "returned" /\ config_call.fn = "parse_server_list_from_env"

\* The k-th smallest member of a set of numbers.
Nth(S, k) == CHOOSE x \in S : Cardinality({ y \in S : y < x }) = k - 1

\* The part of s strictly between positions a and b, without the blanks at
\* its ends.
TrimmedBetween(s, a, b) ==
    LET inside == { i \in (a + 1)..(b - 1) : s[i] # " " }
    IN IF inside = {} THEN << >>
       ELSE SubSeq(s, Nth(inside, 1), Nth(inside, Cardinality(inside)))

\* C20: the result lists, in the order of the value, the segments between the
\* commas with surrounding blanks removed, leaving out the segments that are
\* empty after that; an unset, empty or blank variable gives the empty list.
C20_TrimmedNonEmptySegments ==
    Parsed =>
      LET s == config_call.env.value
          cuts == {0, Len(s) + 1} \cup { i \in 1..Len(s) : s[i] = "," }
          kept == { k \in 1..(Cardinality(cuts) - 1) :
                      TrimmedBetween(s, Nth(cuts, k), Nth(cuts, k + 1)) # << >> }
      IN /\ ~ config_call.env.set => config_ret = << >>
         /\ (\A i \in 1..Len(s) : s[i] = " ") => config_ret = << >>
         /\ config_call.env.set =>
              /\ Len(config_ret) = Cardinality(kept)
              /\ \A j \in 1..Len(config_ret) :
                   config_ret[j] = TrimmedBetween(s, Nth(cuts, Nth(kept, j)),
                                                  Nth(cuts, Nth(kept, j) + 1))

C20_Witness ==
    /\ Parsed
    /\ config_call.env.value = <<" ", "b", ",", ",", "a">>
    /\ config_ret = << <<"b">>, <<"a">> >>

\* ------------------------------------------------------------ specification

\* What the caller gives besides the query: no system prompt and a state with
\* "messages" only, or a system prompt and a state with both custom keys.
GraphInputs ==
    { [system_prompt |-> "", custom_inputs |-> << >>, custom_outputs |-> << >>],
      [system_prompt |-> "prompt", custom_inputs |-> <<"key", "value">>,
       custom_outputs |-> <<"out", "value">>] }

\* The graph has been started on {"messages": [HumanMessage(query)]}.
LoopStart ==
    /\ messages = add_messages(<< >>, <<HumanMessage("query")>>)
    /\ pc = "agent"
    /\ lastNode = "none"
    /\ steps = 0
    /\ modelCalls = 0
    /\ responses = << >>
    /\ toolRuns = 0
    /\ doneOrder = << >>
    /\ build \in {"catch_all", "reraise"}
    /\ failing \in SUBSET {"toolB"}
    /\ \E given \in GraphInputs :
         /\ system_prompt = given.system_prompt
         /\ custom_inputs = given.custom_inputs
         /\ custom_outputs = given.custom_outputs
    /\ outbound = << >>

LoopInit ==
    /\ LoopStart
    /\ alwaysCalls \in 0..MaxCalls
    /\ answersAt = 0

\* No query is running.
LoopIdle ==
    /\ messages = << >>
    /\ pc = "end"
    /\ lastNode = "none"
    /\ steps = 0
    /\ modelCalls = 0
    /\ responses = << >>
    /\ toolRuns = 0
    /\ doneOrder = << >>
    /\ alwaysCalls = 0
    /\ answersAt = 0
    /\ build = "catch_all"
    /\ failing = {}
    /\ system_prompt = ""
    /\ custom_inputs = << >>
    /\ custom_outputs = << >>
    /\ outbound = << >>

\* get_mcp_tools has been called with a list of clients.
RegistryInit ==
    /\ catalog \in UNION { [1..n -> Catalogs] : n \in 0..MaxClients }
    /\ rpc = "fetch"
    /\ fetchLog = << >>
    /\ tool_client_map = << >>
    /\ langchain_tools = << >>
    /\ invLog = << >>
    /\ callLog = << >>
    /\ lookupLog = << >>

\* get_mcp_tools is not called.
RegistryIdle ==
    /\ catalog = << >>
    /\ rpc = "returned"
    /\ fetchLog = << >>
    /\ tool_client_map = << >>
    /\ langchain_tools = << >>
    /\ invLog = << >>
    /\ callLog = << >>
    /\ lookupLog = << >>

\* A manager as __init__ leaves it.
ManagerInit ==
    /\ databricks_server_urls \in UrlLists
    /\ external_server_urls \in UrlLists
    /\ client = NoClient
    /\ authProviders = 0
    /\ clientsBuilt = 0
    /\ urlReads = 0
    /\ netCalls = 0
    /\ getToolsCalls = 0
    /\ closeCalls = 0
    /\ lastResult = "none"

\* A manager nobody calls.
ManagerIdle ==
    /\ databricks_server_urls = << >>
    /\ external_server_urls = << >>
    /\ client = NoClient
    /\ authProviders = 0
    /\ clientsBuilt = 0
    /\ urlReads = 0
    /\ netCalls = 0
    /\ getToolsCalls = 0
    /\ closeCalls = 0
    /\ lastResult = "none"

\* get_mcp_tools has built the tool of one client's remote tool; nothing has
\* been invoked.
InvokeInit ==
    /\ \E c \in 1..MaxClients, input_schema \in InputSchemas :
         /\ mcp_tool = MapEntry(c, input_schema)
         /\ structured_tool = LangchainTool(<<MapEntry(c, input_schema)>>, 1)
         /\ validators = <<LangchainTool(<<MapEntry(c, input_schema)>>, 1).args_schema>>
    /\ inflight = << >>
    /\ runs = {}

\* No tool is invoked.
InvokeIdle ==
    /\ mcp_tool = "none"
    /\ structured_tool = "none"
    /\ inflight = << >>
    /\ runs = {}
    /\ validators = << >>

\* Two tools, "t" and "u", are registered, each from the client that lists it.
TaskInit ==
    /\ \E c1, c2 \in 1..MaxClients, s1, s2 \in TaskSchemas :
         /\ task_map = <<MapEntry(c1, s1), PeerEntry(c2, s2)>>
         /\ task_tools = [k \in 1..2 |-> LangchainTool(<<MapEntry(c1, s1), PeerEntry(c2, s2)>>, k)]
    /\ tasks = << >>
    /\ sessions = [c \in 1..MaxClients |-> << >>]

\* No tool runs as a task.
TaskIdle ==
    /\ task_map = << >>
    /\ task_tools = << >>
    /\ tasks = << >>
    /\ sessions = << >>

\* An application as __init__ leaves it.
AppInit ==
    /\ agent = "None"
    /\ mcp_manager = "None"
    /\ queryCalls = 0
    /\ lastQuery = [kind |-> "none", outcome |-> "none"]

\* One of the configuration functions has been called.
ConfigInit ==
    /\ config_call \in ConfigCalls
    /\ config_pc = "called"
    /\ config_ret = << >>

\* Neither function is called.
ConfigIdle ==
    /\ config_call = [fn |-> "none", workspace_url |-> << >>, server_paths |-> << >>,
                      env |-> [set |-> FALSE, value |-> << >>]]
    /\ config_pc = "idle"
    /\ config_ret = << >>

Init == LoopInit /\ RegistryIdle /\ ManagerIdle /\ InvokeIdle /\ TaskIdle /\ AppInit /\ ConfigIdle

Next == AgentStep \/ ToolComplete \/ ToolsJoin

Spec == Init /\ [][Next]_vars

RegistrySpecInit ==
    LoopIdle /\ RegistryInit /\ ManagerIdle /\ InvokeIdle /\ TaskIdle /\ AppInit /\ ConfigIdle

RegistryNext == FetchCatalog \/ BuildTools \/ InvokeTool \/ GetToolByName

SpecRegistry == RegistrySpecInit /\ [][RegistryNext]_vars

ManagerSpecInit ==
    LoopIdle /\ RegistryIdle /\ ManagerInit /\ InvokeIdle /\ TaskIdle /\ AppInit /\ ConfigIdle

ManagerNext == GetTools \/ Close

SpecManager == ManagerSpecInit /\ [][ManagerNext]_vars

InvokeSpecInit ==
    LoopIdle /\ RegistryIdle /\ ManagerIdle /\ InvokeInit /\ TaskIdle /\ AppInit /\ ConfigIdle

InvokeNext == AInvoke \/ RemoteReturns \/ RemoteRaises \/ BuildSchema

SpecInvoke == InvokeSpecInit /\ [][InvokeNext]_vars

AppSpecInit ==
    LoopIdle /\ RegistryIdle /\ ManagerIdle /\ InvokeIdle /\ TaskIdle /\ AppInit /\ ConfigIdle

AppNext ==
    \/ Initialize
    \/ RunQuery
    \/ RunQueryStream
    \/ AgentStep
    \/ ToolComplete
    \/ ToolsJoin

SpecApp == AppSpecInit /\ [][AppNext]_vars

TaskSpecInit ==
    LoopIdle /\ RegistryIdle /\ ManagerIdle /\ InvokeIdle /\ TaskInit /\ AppInit /\ ConfigIdle

TaskNext == TaskStart \/ TaskReturns \/ TaskRaises

SpecTasks == TaskSpecInit /\ [][TaskNext]_vars

\* The model calls at which the stub of a run may give its answer: never (0),
\* at once, after one round of tools, at the last model call the recursion
\* limit leaves room for, and one call later.
AnswerRounds == {0, 1, 2, (RecursionLimit + 1) \div 2, (RecursionLimit + 1) \div 2 + 1}

\* A query to a model stub that requests tool calls on every response until
\* it answers.
LiveInit ==
    /\ LoopStart
    /\ alwaysCalls \in 1..MaxCalls
    /\ answersAt \in AnswerRounds
    /\ RegistryIdle /\ ManagerIdle /\ InvokeIdle /\ TaskIdle /\ AppInit /\ ConfigIdle

\* A model call that was issued returns, a tool call that was started
\* finishes, and the ToolNode returns once all its calls have finished.
LiveFairness == WF_vars(AgentStep) /\ WF_vars(ToolComplete) /\ WF_vars(ToolsJoin)

SpecLive == LiveInit /\ [][Next]_vars /\ LiveFairness

\* A query whose model asks for tools in at most MaxToolRounds rounds.
CancelInit == Init /\ alwaysCalls = 0

CancelNext == Next \/ Cancel

SpecCancel == CancelInit /\ [][CancelNext]_vars

ConfigSpecInit ==
    LoopIdle /\ RegistryIdle /\ ManagerIdle /\ InvokeIdle /\ TaskIdle /\ AppInit /\ ConfigInit

ConfigNext == BuildUrls \/ ParseEnv

SpecConfig == ConfigSpecInit /\ [][ConfigNext]_vars

====
